---- MODULE Spec2Model ----
(***************************************************************************)
(* A model of the Matrix class of src/src/matrix.ts.                       *)
(*                                                                         *)
(* JavaScript arrays are objects with identity: a matrix holds a reference *)
(* to a row list, and the row list holds references to row arrays.  The    *)
(* model keeps an explicit heap so that two references to the same array   *)
(* (Matrix.from of a matrix, Array.prototype.fill of one row) are visible. *)
(* A driver with two matrix variables (slots) calls the public operations. *)
(***************************************************************************)
EXTENDS Integers, Sequences, FiniteSets, TLC

\* ---------------------------------------------------------------- bounds
MaxDim == 2      \* rows and columns of a constructed matrix range over 1..MaxDim
MaxVal == 1      \* cell values are kept in 0..MaxVal
MaxPow == 2      \* pow is called with amounts up to MaxPow and runs at most MaxPow multiplications

Slots == {1, 2}              \* the driver's matrix variables
Dims == 1..MaxDim
Vals == 0..MaxVal
Idx == -1..MaxDim            \* integer indices the driver passes (one below and one beyond the range)
Amounts == -1..MaxPow        \* amounts the driver passes to pow
Factors == -1..MaxVal        \* numbers the driver passes as put values and factors

\* ------------------------------------------------------- JavaScript values
Undef == 0       \* the value undefined, where a row reference is expected
Absent == -1     \* no such property (a hole, or an index never assigned)

NoMatrix == [obj |-> 0, data |-> 0]                 \* a variable holding no matrix
Throw(kind) == [st |-> kind, v |-> 0]
Return(value) == [st |-> "ok", v |-> value]

VARIABLES
  heap,   \* [rows: sequence of row arrays, lists: sequence of row lists, objs: number of Matrix instances]
  slot,   \* slot[s]: the Matrix the driver's variable s holds, [obj, data], or NoMatrix
  pw,     \* the activation record of a running pow call
  last    \* how the driver's last call ended: "ok" or the error thrown ("none": no call yet, "running": in pow)

vars == <<heap, slot, pw, last>>

\* ------------------------------------------------------------ array access
\* data[i] on a row list: the row reference, or undefined
Lookup(list, i) == IF i \in Idx /\ list.at[i] > 0 THEN list.at[i] ELSE Undef

\* `i in data`
HasKey(list, i) == i \in Idx /\ list.at[i] # Absent

\* data[i] = v: creates the property; a non-negative index at or beyond length grows the array
SetAt(list, i, v) ==
  [len |-> IF i >= list.len THEN i + 1 ELSE list.len,
   at |-> [list.at EXCEPT ![i] = v]]

\* an array of n row references: index i refers to row first + i * step
NewList(n, first, step) ==
  [len |-> n, at |-> [i \in Idx |-> IF 0 <= i /\ i < n THEN first + i * step ELSE Absent]]

\* ----------------------------------------------------- constructor, getters
\* new Matrix(data) from an array: the instance refers to the very array it is given
\* (allocates the instance; `list` is the index of the row list in h)
Construct(h, list) ==
  [h |-> [h EXCEPT !.objs = @ + 1], m |-> [obj |-> h.objs + 1, data |-> list]]

\* new Matrix(matrix) / Matrix.from(matrix): a new instance with the same data reference
From(h, m) == Construct(h, m.data)

RowCount(h, m) == h.lists[m.data].len

ColumnCount(h, m) ==
  LET data == h.lists[m.data]
      first == IF data.len > 0 THEN Lookup(data, 0) ELSE Undef
  IN  IF first = Undef THEN Throw("TypeError") ELSE Return(Len(h.rows[first]))

Get(h, m, row, column) ==
  LET data == h.lists[m.data] IN
  IF ~HasKey(data, row) THEN Throw("RangeError")
  ELSE IF data.at[row] = Undef THEN Throw("TypeError")
  ELSE IF column \notin 0..(Len(h.rows[data.at[row]]) - 1) THEN Throw("RangeError")
  ELSE Return(h.rows[data.at[row]][column + 1])

PutCell(rows, id, column, value) == [rows EXCEPT ![id][column + 1] = value]

Put(h, m, row, column, value) ==
  LET data == h.lists[m.data] IN
  IF ~HasKey(data, row) THEN [st |-> "RangeError", h |-> h]
  ELSE IF data.at[row] = Undef THEN [st |-> "TypeError", h |-> h]
  ELSE IF column \notin 0..(Len(h.rows[data.at[row]]) - 1) THEN [st |-> "RangeError", h |-> h]
  ELSE [st |-> "ok", h |-> [h EXCEPT !.rows = PutCell(@, data.at[row], column, value)]]

\* ------------------------------------------------------------- factories
\* new Array(rows).fill(new Array(columns).fill(0)): ONE row array, referenced by every index
EmptyRows(h, rows, columns) ==
  LET rid == Len(h.rows) + 1 IN
  [rows |-> Append(h.rows, [c \in 1..columns |-> 0]),
   lists |-> Append(h.lists, NewList(rows, rid, 0)),
   objs |-> h.objs]

Empty(h, rows, columns) ==
  LET h1 == EmptyRows(h, rows, columns) IN Construct(h1, Len(h1.lists))

\* ------------------------------------------------------------ callbacks
\* The callbacks passed to map, as records [kind, k, m]:
\*   keep: v => v          succ: v => v + 1        coords: (_, x, y) => x + y
\*   scale: c => k * c (scalar)     diag: (_, x, y) => x === y ? 1 : 0 (identity)
\*   plus: (v, x, y) => v + m.get(x, y) (add)
Callback(kind, k, m) == [kind |-> kind, k |-> k, m |-> m]

Call(h, cb, value, x, y) ==
  CASE cb.kind = "keep" -> Return(value)
    [] cb.kind = "succ" -> Return(value + 1)
    [] cb.kind = "coords" -> Return(x + y)
    [] cb.kind = "scale" -> Return(cb.k * value)
    [] cb.kind = "diag" -> Return(IF x = y THEN 1 ELSE 0)
    [] cb.kind = "plus" ->
         LET g == Get(h, cb.m, x, y) IN
         IF g.st # "ok" THEN g ELSE Return(value + g.v)

\* ------------------------------------------------------------ traversal
\* forEach with map's callback: (value, x, y) => id.put(x, y, callback(value, x, y))
RECURSIVE MapLoop(_, _, _, _, _, _)
MapLoop(h, self, id, cb, x, y) ==
  IF x >= RowCount(h, self) THEN [st |-> "ok", h |-> h]
  ELSE LET cc == ColumnCount(h, self) IN
    IF cc.st # "ok" THEN [st |-> cc.st, h |-> h]
    ELSE IF y >= cc.v THEN MapLoop(h, self, id, cb, x + 1, 0)
    ELSE LET g == Get(h, self, x, y) IN
      IF g.st # "ok" THEN [st |-> g.st, h |-> h]
      ELSE LET r == Call(h, cb, g.v, x, y) IN
        IF r.st # "ok" THEN [st |-> r.st, h |-> h]
        ELSE LET p == Put(h, id, x, y, r.v) IN
          IF p.st # "ok" THEN p
          ELSE MapLoop(p.h, self, id, cb, x, y + 1)

\* map: a result [st, h, m]
Map(h, self, cb) ==
  LET cc == ColumnCount(h, self) IN
  IF cc.st # "ok" THEN [st |-> cc.st, h |-> h, m |-> NoMatrix]
  ELSE LET e == Empty(h, RowCount(h, self), cc.v)
           r == MapLoop(e.h, self, e.m, cb, 0, 0)
       IN  [st |-> r.st, h |-> r.h, m |-> IF r.st = "ok" THEN e.m ELSE NoMatrix]

Identity(h, size) ==
  LET e == Empty(h, size, size) IN Map(e.h, e.m, Callback("diag", 0, NoMatrix))

Scalar(h, self, value) == Map(h, self, Callback("scale", value, NoMatrix))

\* ------------------------------------------------------------ arithmetic
\* add: id = Matrix.empty(...); return id.map((value, x, y) => value + matrix.get(x, y))
Add(h, self, matrix) ==
  LET f == From(h, matrix)
      tc == ColumnCount(f.h, self)
      mc == ColumnCount(f.h, f.m)
  IN  IF RowCount(f.h, self) # RowCount(f.h, f.m) THEN [st |-> "RangeError", h |-> h, m |-> NoMatrix]
      ELSE IF tc.st # "ok" THEN [st |-> tc.st, h |-> h, m |-> NoMatrix]
      ELSE IF mc.st # "ok" THEN [st |-> mc.st, h |-> h, m |-> NoMatrix]
      ELSE IF tc.v # mc.v THEN [st |-> "RangeError", h |-> h, m |-> NoMatrix]
      ELSE LET id == Empty(f.h, RowCount(f.h, self), tc.v)
           IN  Map(id.h, id.m, Callback("plus", 0, f.m))

\* (a variant of Dot whose loop starts at i = 1)
RECURSIVE DotFromOne(_, _, _, _, _, _, _, _)
DotFromOne(h, self, matrix, r, c, ac, i, acc) ==
  IF i >= ac THEN Return(acc)
  ELSE LET ra == Lookup(h.lists[self.data], r)
           rb == Lookup(h.lists[matrix.data], i)
       IN  IF ra = Undef \/ rb = Undef THEN Throw("TypeError")
           ELSE DotFromOne(h, self, matrix, r, c, ac, i + 1,
                           IF i = 0 THEN acc ELSE acc + h.rows[ra][i + 1] * h.rows[rb][c + 1])

\* the innermost loop of multiply: m[r][c] += this.data[r][i] * matrix.data[i][c], i ascending
RECURSIVE Dot(_, _, _, _, _, _, _, _)
Dot(h, self, matrix, r, c, ac, i, acc) ==
  IF i >= ac THEN Return(acc)
  ELSE LET ra == Lookup(h.lists[self.data], r)
           rb == Lookup(h.lists[matrix.data], i)
       IN  IF ra = Undef \/ rb = Undef THEN Throw("TypeError")
           ELSE Dot(h, self, matrix, r, c, ac, i + 1, acc + h.rows[ra][i + 1] * h.rows[rb][c + 1])

\* multiply: a result [st, h, m]; m is built from new row arrays, one per row
Multiply(h, self, matrix) ==
  LET f == From(h, matrix)
      tc == ColumnCount(f.h, self)
      bc == ColumnCount(f.h, f.m)
      ar == RowCount(f.h, self)
  IN  IF tc.st # "ok" THEN [st |-> tc.st, h |-> h, m |-> NoMatrix]
      ELSE IF tc.v # RowCount(f.h, f.m) THEN [st |-> "RangeError", h |-> h, m |-> NoMatrix]
      ELSE IF bc.st # "ok" THEN [st |-> bc.st, h |-> h, m |-> NoMatrix]
      ELSE LET cell == [r \in 0..(ar - 1) |-> [c \in 0..(bc.v - 1) |->
                          Dot(f.h, self, f.m, r, c, tc.v, 0, 0)]]
               first == Len(f.h.rows) + 1
               h1 == [rows |-> f.h.rows \o [r \in 1..ar |-> [c \in 1..bc.v |-> cell[r - 1][c - 1].v]],
                      lists |-> Append(f.h.lists, NewList(ar, first, 1)),
                      objs |-> f.h.objs]
               out == Construct(h1, Len(h1.lists))
           IN  IF \E r \in 0..(ar - 1), c \in 0..(bc.v - 1) : cell[r][c].st # "ok"
               THEN [st |-> "TypeError", h |-> h, m |-> NoMatrix]
               ELSE [st |-> "ok", h |-> out.h, m |-> out.m]

\* -------------------------------------------------- elementary row operations
\* permute: temp = this.row(row1); data[row1] = data[row2]; data[row2] = temp (no bounds check)
Permute(h, m, row1, row2) ==
  LET data == h.lists[m.data]
      temp == Lookup(data, row1)
      d1 == SetAt(data, row1, Lookup(data, row2))
      d2 == SetAt(d1, row2, temp)
  IN  [st |-> "ok", h |-> [h EXCEPT !.lists[m.data] = d2]]

\* multiplyRow: data[row1] = row.map(r => r * mul), a new row array
MultiplyRow(h, m, row1, mul) ==
  LET data == h.lists[m.data]
      row == Lookup(data, row1)
      updatedRow == [i \in DOMAIN h.rows[row] |-> h.rows[row][i] * mul]
  IN  IF row = Undef THEN [st |-> "TypeError", h |-> h]
      ELSE [st |-> "ok",
            h |-> [h EXCEPT !.rows = Append(@, updatedRow),
                            !.lists[m.data] = SetAt(data, row1, Len(h.rows) + 1)]]

\* addRow: rowManipulated[i] += byRowxFactor[i], in place on the manipulated row array
AddRow(h, m, manipulated, r2, multiplyfact) ==
  LET data == h.lists[m.data]
      rowManipulated == Lookup(data, manipulated)
      source == Lookup(data, r2)
      byRowxFactor == [i \in DOMAIN h.rows[source] |-> h.rows[source][i] * multiplyfact]
  IN  IF source = Undef \/ rowManipulated = Undef THEN [st |-> "TypeError", h |-> h]
      ELSE [st |-> "ok",
            h |-> [h EXCEPT !.rows[rowManipulated] =
                     [i \in DOMAIN @ |-> IF i \in DOMAIN byRowxFactor THEN @[i] + byRowxFactor[i] ELSE @[i]]]]

\* ------------------------------------------------------- object identity
\* Array and Matrix identities carry no meaning beyond equality: after each call the
\* objects the driver can still reach are renumbered in the order the driver's
\* variables reach them, and the unreachable ones are dropped (garbage).
RECURSIVE Distinct(_, _, _)
Distinct(seq, i, acc) ==
  IF i > Len(seq) THEN acc
  ELSE Distinct(seq, i + 1,
         IF seq[i] <= 0 \/ (\E j \in DOMAIN acc : acc[j] = seq[i]) THEN acc ELSE Append(acc, seq[i]))

Pos(seq, x) == IF x <= 0 THEN x ELSE CHOOSE i \in DOMAIN seq : seq[i] = x

Width == Cardinality(Idx)

Canon(h, sl, p) ==
  LET roots == <<sl[1], sl[2], p.id>>
      objOrder == Distinct([i \in 1..3 |-> roots[i].obj], 1, <<>>)
      listOrder == Distinct([i \in 1..3 |-> roots[i].data], 1, <<>>)
      refs == [k \in 1..(Len(listOrder) * Width) |->
                 h.lists[listOrder[((k - 1) \div Width) + 1]].at[((k - 1) % Width) - 1]]
      rowOrder == Distinct(refs, 1, <<>>)
      ref(m) == [obj |-> Pos(objOrder, m.obj), data |-> Pos(listOrder, m.data)]
  IN  [heap |-> [rows |-> [j \in 1..Len(rowOrder) |-> h.rows[rowOrder[j]]],
                 lists |-> [j \in 1..Len(listOrder) |->
                    [len |-> h.lists[listOrder[j]].len,
                     at |-> [i \in Idx |-> Pos(rowOrder, h.lists[listOrder[j]].at[i])]]],
                 objs |-> Len(objOrder)],
       slot |-> [s \in Slots |-> ref(sl[s])],
       pw |-> [p EXCEPT !.id = ref(p.id)]]

\* every cell the driver can reach is within the range of values `cells`
Bounded(h, cells) == \A j \in DOMAIN h.rows : \A i \in DOMAIN h.rows[j] : h.rows[j][i] \in cells

\* ------------------------------------------------------------ the driver
\* A driver is a program that holds matrices in its variables and calls the public
\* operations.  Its profile P says which arguments it passes:
\*   P.wild: row and column arguments range over Idx (in range or not), instead of
\*           over the indices that are valid for the receiver;
\*   P.grids: the array literals it constructs matrices from;
\*   P.lits: the numbers it passes (put values, factors);
\*   P.cells: the range cell values are kept in (a call whose result leaves it is not made).
Idle == [on |-> FALSE, self |-> 0, id |-> NoMatrix, amount |-> 0, amount0 |-> 0, mults |-> 0]

Held(s) == slot[s] # NoMatrix

RowArgs(s, P) ==
  IF ~Held(s) THEN {} ELSE IF P.wild THEN Idx ELSE 0..(RowCount(heap, slot[s]) - 1)

ColumnArgs(s, P) ==
  IF ~Held(s) THEN {} ELSE IF P.wild THEN Idx
  ELSE LET cc == ColumnCount(heap, slot[s]) IN IF cc.st = "ok" THEN 0..(cc.v - 1) ELSE {}

\* the call returned: the driver's variables, the heap and the record of the call
Commit(h, sl, p, l, P) ==
  LET n == Canon(h, sl, p) IN
  /\ Bounded(n.heap, P.cells)
  /\ heap' = n.heap
  /\ slot' = n.slot
  /\ pw' = n.pw
  /\ last' = l

\* the call returned a matrix (stored in variable d) or threw (nothing stored)
Store(r, d, P) ==
  IF r.st = "ok" THEN Commit(r.h, [slot EXCEPT ![d] = r.m], Idle, "ok", P)
  ELSE Commit(heap, slot, Idle, r.st, P)

Init ==
  /\ heap = [rows |-> <<>>, lists |-> <<>>, objs |-> 0]
  /\ slot = [s \in Slots |-> NoMatrix]
  /\ pw = Idle
  /\ last = "none"

\* new Matrix([[...], ...]) with a literal: new row arrays in a new row list
Literal(h, grid) ==
  LET h1 == [rows |-> h.rows \o grid,
             lists |-> Append(h.lists, NewList(Len(grid), Len(h.rows) + 1, 1)),
             objs |-> h.objs]
  IN  Construct(h1, Len(h1.lists))

\* literals: the grids that repeat one number (put reaches the others)
Uniform(lits) == {[i \in 1..r |-> [j \in 1..c |-> v]] : r \in Dims, c \in Dims, v \in lits}

NewRawOf(d, grid, P) ==
  /\ ~pw.on
  /\ LET n == Literal(heap, grid) IN
     Commit(n.h, [slot EXCEPT ![d] = n.m], Idle, "ok", P)

NewRaw(d, P) == \E grid \in P.grids : NewRawOf(d, grid, P)

FromOp(s, d, P) ==
  /\ ~pw.on /\ Held(s)
  /\ LET n == From(heap, slot[s]) IN
     Commit(n.h, [slot EXCEPT ![d] = n.m], Idle, "ok", P)

EmptyOf(d, rows, columns, P) ==
  /\ ~pw.on
  /\ LET n == Empty(heap, rows, columns) IN
     Commit(n.h, [slot EXCEPT ![d] = n.m], Idle, "ok", P)

EmptyOp(d, P) == \E rows \in Dims, columns \in Dims : EmptyOf(d, rows, columns, P)

IdentityOf(d, size, P) ==
  /\ ~pw.on
  /\ Store(Identity(heap, size), d, P)

IdentityOp(d, P) == \E size \in Dims : IdentityOf(d, size, P)

GetAt(s, row, column, P) ==
  /\ ~pw.on /\ Held(s)
  /\ Commit(heap, slot, Idle, Get(heap, slot[s], row, column).st, P)

GetOp(s, P) == \E row \in RowArgs(s, P), column \in ColumnArgs(s, P) : GetAt(s, row, column, P)

PutAt(s, row, column, value, P) ==
  /\ ~pw.on /\ Held(s)
  /\ LET r == Put(heap, slot[s], row, column, value) IN
     Commit(r.h, slot, Idle, r.st, P)

PutOp(s, P) ==
  \E row \in RowArgs(s, P), column \in ColumnArgs(s, P), value \in P.lits :
    PutAt(s, row, column, value, P)

MapCallbacks == {"keep", "succ", "coords"}

MapWith(s, d, kind, P) ==
  /\ ~pw.on /\ Held(s)
  /\ Store(Map(heap, slot[s], Callback(kind, 0, NoMatrix)), d, P)

MapOp(s, d, P) == \E kind \in MapCallbacks : MapWith(s, d, kind, P)

AddOp(s, o, d, P) ==
  /\ ~pw.on /\ Held(s) /\ Held(o)
  /\ Store(Add(heap, slot[s], slot[o]), d, P)

ScalarBy(s, d, value, P) ==
  /\ ~pw.on /\ Held(s)
  /\ Store(Scalar(heap, slot[s], value), d, P)

ScalarOp(s, d, P) == \E value \in P.lits : ScalarBy(s, d, value, P)

MultiplyOp(s, o, d, P) ==
  /\ ~pw.on /\ Held(s) /\ Held(o)
  /\ Store(Multiply(heap, slot[s], slot[o]), d, P)

PermuteAt(s, row1, row2, P) ==
  /\ ~pw.on /\ Held(s)
  /\ LET r == Permute(heap, slot[s], row1, row2) IN
     Commit(r.h, slot, Idle, r.st, P)

PermuteOp(s, P) == \E row1 \in RowArgs(s, P), row2 \in RowArgs(s, P) : PermuteAt(s, row1, row2, P)

MultiplyRowAt(s, row1, mul, P) ==
  /\ ~pw.on /\ Held(s)
  /\ LET r == MultiplyRow(heap, slot[s], row1, mul) IN
     Commit(r.h, slot, Idle, r.st, P)

MultiplyRowOp(s, P) == \E row1 \in RowArgs(s, P), mul \in P.lits : MultiplyRowAt(s, row1, mul, P)

AddRowAt(s, manipulated, r2, multiplyfact, P) ==
  /\ ~pw.on /\ Held(s)
  /\ LET r == AddRow(heap, slot[s], manipulated, r2, multiplyfact) IN
     Commit(r.h, slot, Idle, r.st, P)

AddRowOp(s, P) ==
  \E manipulated \in RowArgs(s, P), r2 \in RowArgs(s, P), multiplyfact \in P.lits :
    AddRowAt(s, manipulated, r2, multiplyfact, P)

\* slot[s].pow(amount): the squareness check, then `let id = this`
PowCallWith(s, amount, P) ==
  /\ ~pw.on /\ Held(s)
  /\ LET cc == ColumnCount(heap, slot[s]) IN
     IF cc.st # "ok" THEN Commit(heap, slot, Idle, cc.st, P)
     ELSE IF RowCount(heap, slot[s]) # cc.v THEN Commit(heap, slot, Idle, "RangeError", P)
     ELSE Commit(heap, slot,
                 [on |-> TRUE, self |-> s, id |-> slot[s],
                  amount |-> amount, amount0 |-> amount, mults |-> 0],
                 "running", P)

PowCall(s, P) == \E amount \in Amounts : PowCallWith(s, amount, P)

\* one evaluation of `while (--amount)`, then the body `id = id.multiply(this)`
PowLoop(P) ==
  /\ pw.on /\ pw.amount - 1 # 0
  /\ pw.mults < MaxPow
  /\ LET r == Multiply(heap, pw.id, slot[pw.self]) IN
     IF r.st = "ok" THEN
       Commit(r.h, slot, [pw EXCEPT !.id = r.m, !.amount = @ - 1, !.mults = @ + 1],
              "running", P)
     ELSE Commit(heap, slot, Idle, r.st, P)

\* `--amount` is 0: `return id`, which the driver stores in its variable d
PowReturn(d, P) ==
  /\ pw.on /\ pw.amount - 1 = 0
  /\ Commit(heap, [slot EXCEPT ![d] = pw.id], Idle, "ok", P)

\* ------------------------------------------------ Spec: the general driver
\* Two variables, every operation, row and column arguments valid for the receiver.
General == [wild |-> FALSE, grids |-> Uniform(Vals), lits |-> Factors, cells |-> Vals]

Next ==
  \/ \E s \in Slots : AddRowOp(s, General)
  \/ \E s \in Slots : MultiplyRowOp(s, General)
  \/ \E s \in Slots : PermuteOp(s, General)
  \/ \E s \in Slots : PutOp(s, General)
  \/ \E s \in Slots : GetOp(s, General)
  \/ \E s \in Slots, o \in Slots, d \in Slots : AddOp(s, o, d, General)
  \/ \E s \in Slots, o \in Slots, d \in Slots : MultiplyOp(s, o, d, General)
  \/ \E s \in Slots, d \in Slots : MapOp(s, d, General)
  \/ \E s \in Slots, d \in Slots : ScalarOp(s, d, General)
  \/ \E s \in Slots : PowCall(s, General)
  \/ PowLoop(General)
  \/ \E d \in Slots : PowReturn(d, General)
  \/ \E d \in Slots : IdentityOp(d, General)
  \/ \E d \in Slots : EmptyOp(d, General)
  \/ \E s \in Slots, d \in Slots : FromOp(s, d, General)
  \/ \E d \in Slots : NewRaw(d, General)

Spec == Init /\ [][Next]_vars

\* ------------------------------------- SpecRow: one matrix, any integer index
\* One variable; construction, get, put and the elementary row operations, called with
\* row and column arguments that range over Idx whatever the receiver's dimensions.
Stray == [wild |-> TRUE, grids |-> Uniform(Vals), lits |-> Factors, cells |-> Vals]

NextRow ==
  \/ GetOp(1, Stray)
  \/ PutOp(1, Stray)
  \/ PermuteOp(1, Stray)
  \/ MultiplyRowOp(1, Stray)
  \/ AddRowOp(1, Stray)
  \/ IdentityOp(1, Stray)
  \/ EmptyOp(1, Stray)
  \/ NewRaw(1, Stray)

SpecRow == Init /\ [][NextRow]_vars

\* ------------------------------------------ SpecMul: construct, then multiply
\* The driver holds two matrices and multiplies once: d = x.multiply(o).  Each operand is
\* either built from an arbitrary literal, new Matrix([[..], ..]), or is what Matrix.empty
\* and put calls leave: every row index referring to one row array.
\* Both operands are drawn at once, so they are kept to the shapes below.
Shapes == {1, 2}                                       \* row and column counts of the operands
Operands(lits) == UNION {[1..r -> [1..c -> lits]] : r \in Shapes, c \in Shapes}
MaxProduct == Cardinality(Shapes) * MaxVal * MaxVal    \* the largest cell of a product of two operands
Product == [wild |-> FALSE, grids |-> Operands(Vals), lits |-> Vals, cells |-> 0..MaxProduct]

\* Matrix.empty(Len(grid), ..) after the puts that make its one row equal to grid[1]
Filled(h, grid) ==
  LET h1 == [rows |-> Append(h.rows, grid[1]),
             lists |-> Append(h.lists, NewList(Len(grid), Len(h.rows) + 1, 0)),
             objs |-> h.objs]
  IN  Construct(h1, Len(h1.lists))

Operand(h, grid, shared) == IF shared THEN Filled(h, grid) ELSE Literal(h, grid)

\* a grid that a matrix with one shared row array can show
Repeats(grid) == Len(grid) > 1 /\ \A i \in DOMAIN grid : grid[i] = grid[1]

InitMul ==
  \E ga \in Product.grids, gb \in Product.grids, sa \in BOOLEAN, sb \in BOOLEAN :
    /\ sa => Repeats(ga)
    /\ sb => Repeats(gb)
    /\ LET a == Operand([rows |-> <<>>, lists |-> <<>>, objs |-> 0], ga, sa)
           b == Operand(a.h, gb, sb)
           n == Canon(b.h, [s \in Slots |-> IF s = 1 THEN a.m ELSE b.m], Idle)
       IN  /\ heap = n.heap
           /\ slot = n.slot
           /\ pw = Idle
           /\ last = "none"

\* the receiver is the first variable (the operands are drawn in both orders)
NextMul == \E o \in Slots, d \in Slots : last = "none" /\ MultiplyOp(1, o, d, Product)

SpecMul == InitMul /\ [][NextMul]_vars

\* ------------------------------------------------------------ observations
\* what a caller can observe of a matrix through the public accessors
Cell(h, m, r, c) == Get(h, m, r, c).v
InGrid(h, m, r, c) ==
  /\ 0 <= r /\ r < RowCount(h, m)
  /\ ColumnCount(h, m).st = "ok" /\ 0 <= c /\ c < ColumnCount(h, m).v
Columns(h, m) == ColumnCount(h, m).v
RowRefs(h, m) == {h.lists[m.data].at[i] : i \in Idx} \ {Undef, Absent}
h_at(s, i) == heap.lists[slot[s].data].at[i]

RECURSIVE SumProducts(_, _, _, _, _, _)
SumProducts(h, A, B, i, j, n) ==
  IF n = 0 THEN 0
  ELSE SumProducts(h, A, B, i, j, n - 1) + Cell(h, A, i, n - 1) * Cell(h, B, n - 1, j)

\* ------------------------------------------------------------------ C5
MultiplyPost(s, o, d) ==
  LET A == slot[s]
      B == slot[o]
      r == RowCount(heap, A)
      n == Columns(heap, A)
      m == RowCount(heap, B)
      c == Columns(heap, B)
      R == slot'[d]
  IN  IF n # m THEN last' = "RangeError" /\ heap' = heap /\ slot' = slot
      ELSE /\ last' = "ok"
           /\ RowCount(heap', R) = r
           /\ ColumnCount(heap', R) = Return(c)
           /\ \A i \in 0..(r - 1), j \in 0..(c - 1) :
                Get(heap', R, i, j) = Return(SumProducts(heap, A, B, i, j, n))
           /\ \A u \in Slots \ {d} :
                /\ slot'[u].data # R.data
                /\ RowRefs(heap', slot'[u]) \cap RowRefs(heap', R) = {}
                /\ RowCount(heap', slot'[u]) = RowCount(heap, slot[u])
                /\ \A i \in 0..(RowCount(heap, slot[u]) - 1), j \in 0..(Columns(heap, slot[u]) - 1) :
                     Get(heap', slot'[u], i, j) = Get(heap, slot[u], i, j)

\* C5: A.multiply(B) fails with RangeError (dimension mismatch) when A's column count differs
\* from B's row count and changes nothing; otherwise it returns a new r x c matrix whose cell
\* (i,j) is the sum over k of A.get(i,k) * B.get(k,j), and the operands keep their cells.
C5_Multiply ==
  [][\A o \in Slots, d \in Slots :
       MultiplyOp(1, o, d, Product) => MultiplyPost(1, o, d)]_vars

\* a product was returned with a cell that only a sum of two non-zero products gives
C5_Witness ==
  /\ last = "ok"
  /\ \E d \in Slots, i \in 0..(MaxDim - 1), j \in 0..(MaxDim - 1) :
       /\ Held(d) /\ InGrid(heap, slot[d], i, j)
       /\ Cell(heap, slot[d], i, j) > MaxVal

\* ------------------------------------------------------------------ C1
InCells == 0..(MaxDim - 1)

\* C1: after M.put(r,c,v) with (r,c) in range, M.get(r,c) returns v and every other cell of M
\* holds the value it held before the put.
C1_PutFrame ==
  [][\A s \in Slots, row \in InCells, column \in InCells, value \in Vals :
       (Held(s) /\ InGrid(heap, slot[s], row, column) /\ PutAt(s, row, column, value, General))
       => /\ Get(heap', slot'[s], row, column) = Return(value)
          /\ \A r2 \in InCells, c2 \in InCells :
               (InGrid(heap, slot[s], r2, c2) /\ <<r2, c2>> # <<row, column>>)
               => Get(heap', slot'[s], r2, c2) = Get(heap, slot[s], r2, c2)]_vars

\* ------------------------------------------------------------------ C2
\* C2: M.map(f) returns a matrix of the same dimensions whose cell (r,c) is f(M.get(r,c), r, c),
\* and M's cells are unchanged by the call.
C2_Map ==
  [][\A s \in Slots, d \in Slots, kind \in MapCallbacks :
       (Held(s) /\ MapWith(s, d, kind, General))
       => /\ last' = "ok"
          /\ RowCount(heap', slot'[d]) = RowCount(heap, slot[s])
          /\ ColumnCount(heap', slot'[d]) = ColumnCount(heap, slot[s])
          /\ \A r \in InCells, c \in InCells :
               InGrid(heap, slot[s], r, c)
               => /\ Get(heap', slot'[d], r, c) =
                       Call(heap, Callback(kind, 0, NoMatrix), Cell(heap, slot[s], r, c), r, c)
                  /\ d # s => Get(heap', slot'[s], r, c) = Get(heap, slot[s], r, c)]_vars

\* ------------------------------------------------------------------ C3
SameSize(h, A, B) ==
  /\ RowCount(h, A) = RowCount(h, B)
  /\ ColumnCount(h, A).st = "ok" /\ ColumnCount(h, A) = ColumnCount(h, B)

\* C3: for A and B of identical dimensions, A.add(B) returns a matrix whose cell (r,c) is
\* A.get(r,c) + B.get(r,c).
C3_Add ==
  [][\A s \in Slots, o \in Slots, d \in Slots :
       (Held(s) /\ Held(o) /\ SameSize(heap, slot[s], slot[o]) /\ AddOp(s, o, d, General))
       => /\ last' = "ok"
          /\ \A r \in InCells, c \in InCells :
               InGrid(heap, slot[s], r, c)
               => Get(heap', slot'[d], r, c) =
                    Return(Cell(heap, slot[s], r, c) + Cell(heap, slot[o], r, c))]_vars

\* ------------------------------------------------------------------ C4
\* C4: Matrix.identity(n) has 1 where the row index equals the column index and 0 elsewhere.
C4_Identity ==
  [][\A d \in Slots, size \in Dims :
       IdentityOf(d, size, General)
       => /\ last' = "ok"
          /\ RowCount(heap', slot'[d]) = size
          /\ ColumnCount(heap', slot'[d]) = Return(size)
          /\ \A r \in 0..(size - 1), c \in 0..(size - 1) :
               Get(heap', slot'[d], r, c) = Return(IF r = c THEN 1 ELSE 0)]_vars

\* ------------------------------------------------------------------ C6
\* C6: pow(amount) performs amount - 1 multiplications when amount >= 2 and none when
\* amount <= 1, and then returns: the original matrix itself when amount <= 1.
C6_Pow ==
  [][/\ pw'.on => pw'.mults <= (IF pw'.amount0 >= 2 THEN pw'.amount0 - 1 ELSE 0)
     /\ \A d \in Slots :
          PowReturn(d, General)
          => /\ pw.mults = (IF pw.amount0 >= 2 THEN pw.amount0 - 1 ELSE 0)
             /\ pw.amount0 <= 1 => pw.id = slot[pw.self]]_vars

\* ------------------------------------------------------------------ C8
\* C8: each matrix exclusively owns its storage: no two row indices of one matrix refer to
\* the same row array, and no two distinct Matrix instances share a row array or the row list.
C8_Ownership ==
  /\ \A s \in Slots :
       Held(s) => \A i \in Idx, j \in Idx :
         (i # j /\ h_at(s, i) > 0) => h_at(s, i) # h_at(s, j)
  /\ \A s \in Slots, u \in Slots :
       (Held(s) /\ Held(u) /\ slot[s].obj # slot[u].obj)
       => /\ slot[s].data # slot[u].data
          /\ RowRefs(heap, slot[s]) \cap RowRefs(heap, slot[u]) = {}

\* ------------------------------------------------------------------ C9
\* C9: after M.addRow({manipulated: m, row2: [s, f]}) with valid m and s, row m holds
\* old_row_m[i] + old_row_s[i] * f at every column i and every other row is unchanged.
C9_AddRow ==
  [][\A v \in Slots, m \in InCells, src \in InCells, f \in Factors :
       (Held(v) /\ InGrid(heap, slot[v], m, 0) /\ InGrid(heap, slot[v], src, 0)
          /\ AddRowAt(v, m, src, f, General))
       => \A r \in InCells, c \in InCells :
            InGrid(heap, slot[v], r, c)
            => Get(heap', slot'[v], r, c) =
                 Return(IF r = m THEN Cell(heap, slot[v], m, c) + Cell(heap, slot[v], src, c) * f
                        ELSE Cell(heap, slot[v], r, c))]_vars

\* ------------------------------------------------------------------ C7
HasDims(h, m) == ColumnCount(h, m).st = "ok"

\* C7: for (r,c) with r outside [0, rows) or c outside [0, columns), get and put both fail
\* with RangeError, and the failed put leaves the matrix as it was.
C7_OutOfRange ==
  [][\A row \in Idx, column \in Idx :
       (Held(1) /\ HasDims(heap, slot[1]) /\ ~InGrid(heap, slot[1], row, column))
       => /\ GetAt(1, row, column, Stray) => last' = "RangeError"
          /\ \A value \in Vals :
               PutAt(1, row, column, value, Stray)
               => last' = "RangeError" /\ heap' = heap /\ slot' = slot]_vars

\* ------------------------------------------------------------------ C10
Mutation(s, P) ==
  \/ \E row \in Idx, column \in Idx, value \in Vals : PutAt(s, row, column, value, P)
  \/ \E row1 \in Idx, row2 \in Idx : PermuteAt(s, row1, row2, P)
  \/ \E row1 \in Idx, mul \in Factors : MultiplyRowAt(s, row1, mul, P)
  \/ \E manipulated \in Idx, r2 \in Idx, f \in Factors : AddRowAt(s, manipulated, r2, f, P)

Rectangular(h, m) ==
  /\ HasDims(h, m)
  /\ \A i \in 0..(RowCount(h, m) - 1) :
       /\ Lookup(h.lists[m.data], i) # Undef
       /\ Len(h.rows[Lookup(h.lists[m.data], i)]) = Columns(h, m)

\* C10: put, permute, multiplyRow and addRow, with any integer arguments and whether they
\* succeed or fail, leave rowCount and columnCount as they were and every row columnCount long.
C10_Dimensions ==
  [][(Held(1) /\ Rectangular(heap, slot[1]) /\ Mutation(1, Stray))
     => /\ RowCount(heap', slot'[1]) = RowCount(heap, slot[1])
        /\ ColumnCount(heap', slot'[1]) = ColumnCount(heap, slot[1])
        /\ Rectangular(heap', slot'[1])]_vars

====
